---- MODULE Spec2Model ----
(***************************************************************************)
(* The MPI traffic cellular automaton of src/CA/cellular_automaton_mpi.c:  *)
(* a ring of n cells partitioned over `size` workers, each holding two     *)
(* buffers of local_n + 2 cells (owned cells 1..local_n, ghost slots 0 and *)
(* local_n + 1), a halo exchange of two MPI_Sendrecv calls and a local     *)
(* update per iteration.                                                   *)
(*                                                                         *)
(* Sends are eager (one byte): the send half of an MPI_Sendrecv puts the   *)
(* message in the channel, the receive half blocks until a message of the  *)
(* awaited source and tag is there.  Messages between one pair of workers  *)
(* do not overtake each other.                                             *)
(***************************************************************************)
EXTENDS Integers, Sequences, FiniteSets, TLC

\* Bounds of the model.
MaxN == 4
MaxSize == 3
MaxIter == 2
OrbitMaxN == 8
MaxRand == 3
DensityDen == 2
DensityMaxN == 3

VARIABLES
    n,               \* main: ring length (argv[1])
    size,            \* main: MPI_Comm_size
    iterations,      \* main: iteration count (argv[2])
    road0,           \* outcome of the density test of initialize_road_local, per ring cell
    local_n,         \* main: local_n of each rank
    left_neighbor,   \* main: left_neighbor of each rank
    right_neighbor,  \* main: right_neighbor of each rank
    pc,              \* position of each rank in main
    t,               \* loop counter of each rank
    bufs,            \* the two calloc'ed buffers of each rank
    cur,             \* which of the two buffers road_current points to
    chan,            \* chan[src][dst]: messages sent and not yet received
    local_cars,      \* main: local_cars of each rank
    total_cars,      \* main: total_cars of each rank
    local_moved,     \* main: local_moved of each rank (last update_step)
    stamp,           \* history: iteration and tag of the message last received into each ghost slot
    moved_hist,      \* history: the values update_step returned, per rank, in order
    sent_hist,       \* history: the values each rank sent, per tag, in order
    allreduce_calls, \* history: how many times each rank has called MPI_Allreduce
    report,          \* the "Total cars" lines printed, in order: who printed which total
    start_time_read, \* the ranks that have read start_time = MPI_Wtime()
    end_time_read,   \* the ranks that have read end_time = MPI_Wtime()
    csv,             \* the lines appended to results_ca.csv, in order
    exit_status,     \* exit status of each rank, -1 while it runs
    abort_called,    \* whether some rank has called MPI_Abort
    full_road,       \* gather_and_print: the buffer assembled at rank 0, <<>> before
    nxt,             \* which of the two buffers road_next points to
    upd_hist,        \* history: the buffers passed to each update_step call, per rank, in order
    idx_hist,        \* history: the buffer indices each rank has read or written
    density,         \* main: density (argv[3]), in units of 1 / DensityDen
    rand_vals,       \* the value rand() returns for each ring cell
    peel             \* update_step of cellular_automaton_v2.c: its locals and its position

cfgVars == <<n, size, iterations, road0, local_n, left_neighbor, right_neighbor,
             density, rand_vals>>
vars == <<n, size, iterations, road0, local_n, left_neighbor, right_neighbor,
          pc, t, bufs, cur, chan, local_cars, total_cars, local_moved, stamp, moved_hist,
          sent_hist, allreduce_calls, report, start_time_read, end_time_read, csv,
          exit_status, abort_called, full_road, nxt, upd_hist, idx_hist, density, rand_vals,
          peel>>

\* What a rank prints, times and returns, and the group-wide abort and gather.
outVars == <<report, start_time_read, end_time_read, csv, exit_status, abort_called, full_road>>

Ranks == 0..(size - 1)

Min(a, b) == IF a < b THEN a ELSE b

(***************************************************************************)
(* Partition and topology (main).                                          *)
(***************************************************************************)
LocalNOffByOne(nn, sz, rank) == (nn \div sz) + (IF rank <= nn % sz THEN 1 ELSE 0)

LocalN(nn, sz, rank) == (nn \div sz) + (IF rank < nn % sz THEN 1 ELSE 0)

\* (rank - 1) % size as C computes it: the remainder has the sign of rank - 1.
LeftNeighborNoWrap(rank, sz) ==
    IF rank - 1 < 0 THEN 0 - ((1 - rank) % sz) ELSE (rank - 1) % sz

LeftNeighbor(rank, sz) == (rank - 1 + sz) % sz

RightNeighborCopied(rank, sz) == (rank - 1 + sz) % sz

RightNeighbor(rank, sz) == (rank + 1) % sz

\* Ring index of the first owned cell of a rank: the displs of gather_and_print.
RECURSIVE Displs(_, _, _)
Displs(nn, sz, rank) ==
    IF rank = 0 THEN 0
    ELSE Displs(nn, sz, rank - 1) + ((nn \div sz) + (IF rank - 1 < nn % sz THEN 1 ELSE 0))

Calloc(ln) == [i \in 0..(ln + 1) |-> 0]

(***************************************************************************)
(* The density test of initialize_road_local,                              *)
(* (rand() / (double)RAND_MAX) < density, on a generator whose largest     *)
(* value is MaxRand and a density of dens / DensityDen: the quotient is 1.0 *)
(* exactly when rand() returns its largest value.                          *)
(***************************************************************************)
DensityTest(rnd, dens) == IF rnd * DensityDen < dens * MaxRand THEN 1 ELSE 0

(***************************************************************************)
(* initialize_road_local: cells 1..local_n get the outcome of the density  *)
(* test; bits[i] is that outcome for owned cell i.                         *)
(***************************************************************************)
InitializeRoadLocalFromZero(road, ln, bits) ==
    [i \in DOMAIN road |-> IF ln >= 1 /\ i <= ln THEN bits[IF i = 0 THEN 1 ELSE i] ELSE road[i]]

InitializeRoadLocal(road, ln, bits) ==
    [i \in DOMAIN road |-> IF 1 <= i /\ i <= ln THEN bits[i] ELSE road[i]]

(***************************************************************************)
(* count_cars_local.                                                       *)
(***************************************************************************)
RECURSIVE CountLoop(_, _, _, _)
CountLoop(road, ln, i, count) ==
    IF i > ln THEN count ELSE CountLoop(road, ln, i + 1, count + road[i])

CountCarsLocalShort(road, ln) == CountLoop(road, ln - 1, 1, 0)

CountCarsLocal(road, ln) == CountLoop(road, ln, 1, 0)

(***************************************************************************)
(* update_step of the MPI variant: one pass over the owned cells, reading  *)
(* old_road[i-1], old_road[i], old_road[i+1].                              *)
(***************************************************************************)
UpdateCellNoGap(old_road, i) ==
    LET left_val == old_road[i - 1]
        curr_val == old_road[i]
        right_val == old_road[i + 1]
        car_arriving == left_val # 0
        car_staying == curr_val # 0 /\ right_val # 0
    IN  IF car_arriving \/ car_staying THEN 1 ELSE 0

UpdateCell(old_road, i) ==
    LET left_val == old_road[i - 1]
        curr_val == old_road[i]
        right_val == old_road[i + 1]
        car_arriving == left_val # 0 /\ ~(curr_val # 0)
        car_staying == curr_val # 0 /\ right_val # 0
    IN  IF car_arriving \/ car_staying THEN 1 ELSE 0

CellMovedAny(old_road, i) ==
    IF old_road[i] # 0 THEN 1 ELSE 0

CellMovedStayed(old_road, i) ==
    IF old_road[i] # 0 /\ old_road[i + 1] # 0 THEN 1 ELSE 0

CellMoved(old_road, i) ==
    IF old_road[i] # 0 /\ ~(old_road[i + 1] # 0) THEN 1 ELSE 0

RECURSIVE UpdateLoop(_, _, _, _, _)
UpdateLoop(old_road, new_road, ln, i, cars_moved) ==
    IF i > ln THEN [road |-> new_road, moved |-> cars_moved]
    ELSE UpdateLoop(old_road, [new_road EXCEPT ![i] = UpdateCell(old_road, i)],
                    ln, i + 1, cars_moved + CellMoved(old_road, i))

UpdateStepShort(old_road, new_road, ln) == UpdateLoop(old_road, new_road, ln - 1, 1, 0)

UpdateStep(old_road, new_road, ln) == UpdateLoop(old_road, new_road, ln, 1, 0)

(***************************************************************************)
(* update_step of the sequential variant: cells 0..n-1, neighbours taken   *)
(* modulo n.                                                               *)
(***************************************************************************)
RECURSIVE SeqUpdateLoop(_, _, _, _, _)
SeqUpdateLoop(old_road, new_road, nn, i, cars_moved) ==
    IF i >= nn THEN [road |-> new_road, moved |-> cars_moved]
    ELSE LET left == (i - 1 + nn) % nn
             right == (i + 1) % nn
             car_arriving == old_road[left] # 0 /\ ~(old_road[i] # 0)
             car_staying == old_road[i] # 0 /\ old_road[right] # 0
             moved == IF old_road[i] # 0 /\ ~(old_road[right] # 0) THEN 1 ELSE 0
         IN  SeqUpdateLoop(old_road,
                           [new_road EXCEPT ![i] = IF car_arriving \/ car_staying THEN 1 ELSE 0],
                           nn, i + 1, cars_moved + moved)

SeqUpdateStep(old_road, nn) ==
    SeqUpdateLoop(old_road, [i \in 0..(nn - 1) |-> 0], nn, 0, 0)

(***************************************************************************)
(* Buffers and channels.                                                   *)
(***************************************************************************)
RoadCurrent(r) == bufs[r][cur[r]]
RoadNext(r) == bufs[r][nxt[r]]

\* The pointer swap that ends an iteration of the loop of main.
SwapPointersNoTemp(p) == [road_current |-> p.road_next, road_next |-> p.road_next]

SwapPointers(p) ==
    LET temp == p.road_current
    IN  [road_current |-> p.road_next, road_next |-> temp]

\* exchange_borders: the cell each MPI_Sendrecv sends and the slot it receives
\* into; the cells initialize_road_local and count_cars_local touch; the cells
\* update_step touches.
SendIndex0(ln) == 1

RecvIndex0Past(ln) == ln + 2

RecvIndex0(ln) == ln + 1

SendIndex1(ln) == ln

RecvIndex1(ln) == 0

OwnedIndices(ln) == {i \in 1..ln : TRUE}

UpdateIndices(ln) == UNION {{i - 1, i, i + 1} : i \in 1..ln}

\* The buffer main passes to exchange_borders.
ExchangeBufferNext(r) == 1 - cur[r]

ExchangeBuffer(r) == cur[r]

\* Position of the first message of the awaited tag, 0 when there is none.
MatchPos(q, tag) ==
    IF \E i \in 1..Len(q) : q[i].tag = tag
    THEN CHOOSE i \in 1..Len(q) : q[i].tag = tag /\ \A j \in 1..(i - 1) : q[j].tag # tag
    ELSE 0

RemoveAtKept(q, i) == q

RemoveAt(q, i) == SubSeq(q, 1, i - 1) \o SubSeq(q, i + 1, Len(q))

\* The values the send half of MPI_Sendrecv can transmit.  When the send and
\* the receive buffer are the same cell (local_n = 0) the call is erroneous:
\* the cell is read either before or after the incoming message lands in it.
SendValues(r, sidx, ridx, src, tag) ==
    {bufs[r][ExchangeBuffer(r)][sidx]}
    \cup (IF sidx = ridx /\ MatchPos(chan[src][r], tag) # 0
          THEN {chan[src][r][MatchPos(chan[src][r], tag)].val}
          ELSE {})

LoopOrExitExchangeOnce(k) ==
    IF k < iterations THEN (IF k = 0 THEN "send0" ELSE "update") ELSE "barrier2"

LoopOrExitSecondFirst(k) == IF k < iterations THEN "send1" ELSE "barrier2"

LoopOrExitNoExchange(k) == IF k < iterations THEN "update" ELSE "barrier2"

LoopOrExit(k) == IF k < iterations THEN "send0" ELSE "barrier2"

(***************************************************************************)
(* gather_and_print: rank 0 computes recvcounts and displs, MPI_Gatherv     *)
(* places the local_n cells each rank sends from &local_road[1] at          *)
(* displs[rank].  A cell of the malloc'ed full_road that nothing writes is  *)
(* indeterminate (-1 here); writes counts the writes to each cell.          *)
(***************************************************************************)
GatherRecvCountsUniform(nn, sz) == [i \in 0..(sz - 1) |-> nn \div sz]

GatherRecvCounts(nn, sz) ==
    LET remainder == nn % sz
    IN  [i \in 0..(sz - 1) |-> (nn \div sz) + (IF i < remainder THEN 1 ELSE 0)]

RECURSIVE GatherDisplsLoop(_, _, _, _, _)
GatherDisplsLoop(recvcounts, sz, i, offset, displs) ==
    IF i >= sz THEN displs
    ELSE GatherDisplsLoop(recvcounts, sz, i + 1, offset + recvcounts[i],
                          [displs EXCEPT ![i] = offset])

GatherDisplsUniform(nn, sz) == [i \in 0..(sz - 1) |-> i * (nn \div sz)]

GatherDispls(nn, sz) ==
    GatherDisplsLoop(GatherRecvCounts(nn, sz), sz, 0, 0, [i \in 0..(sz - 1) |-> 0])

RECURSIVE PlaceCells(_, _, _, _, _)
PlaceCells(full, sendbuf, count, displ, j) ==
    IF j >= count THEN full
    ELSE PlaceCells([cells |-> [full.cells EXCEPT ![displ + j] = sendbuf[1 + j]],
                     writes |-> [full.writes EXCEPT ![displ + j] = @ + 1]],
                    sendbuf, count, displ, j + 1)

RECURSIVE Gatherv(_, _, _, _, _, _)
Gatherv(full, sendbufs, sendcounts, displs, sz, i) ==
    IF i >= sz THEN full
    ELSE Gatherv(PlaceCells(full, sendbufs[i], sendcounts[i], displs[i], 0),
                 sendbufs, sendcounts, displs, sz, i + 1)

(***************************************************************************)
(* Initial states: main up to the computation of the neighbours.           *)
(***************************************************************************)
InitRest ==
    /\ local_n = [r \in Ranks |-> LocalN(n, size, r)]
    /\ left_neighbor = [r \in Ranks |-> LeftNeighbor(r, size)]
    /\ right_neighbor = [r \in Ranks |-> RightNeighbor(r, size)]
    /\ pc = [r \in Ranks |-> "init"]
    /\ t = [r \in Ranks |-> 0]
    /\ bufs = [r \in Ranks |-> [b \in {0, 1} |-> Calloc(LocalN(n, size, r))]]
    /\ cur = [r \in Ranks |-> 0]
    /\ chan = [s \in Ranks |-> [d \in Ranks |-> <<>>]]
    /\ local_cars = [r \in Ranks |-> 0]
    /\ total_cars = [r \in Ranks |-> 0]
    /\ local_moved = [r \in Ranks |-> 0]
    /\ stamp = [r \in Ranks |-> [b \in {0, 1} |->
                   [left |-> [iter |-> -1, tag |-> -1], right |-> [iter |-> -1, tag |-> -1]]]]
    /\ moved_hist = [r \in Ranks |-> <<>>]
    /\ sent_hist = [r \in Ranks |-> [g \in {0, 1} |-> <<>>]]
    /\ allreduce_calls = [r \in Ranks |-> 0]
    /\ report = <<>>
    /\ start_time_read = {}
    /\ end_time_read = {}
    /\ csv = <<>>
    /\ exit_status = [r \in Ranks |-> -1]
    /\ abort_called = FALSE
    /\ full_road = <<>>
    /\ nxt = [r \in Ranks |-> 1]
    /\ upd_hist = [r \in Ranks |-> <<>>]
    /\ idx_hist = [r \in Ranks |-> {}]
    /\ peel = [pc |-> "idle", i |-> 0, new_road |-> <<>>, cars_moved |-> 0, reads |-> {}]

\* A density of one half and generator values that give the lattice road0.
GeneratorFor ==
    /\ density = 1
    /\ rand_vals = [g \in 0..(n - 1) |-> IF road0[g] = 1 THEN 0 ELSE MaxRand]

Init ==
    /\ n \in 1..MaxN
    /\ size \in 1..MaxSize
    /\ iterations \in 0..MaxIter
    /\ road0 \in [0..(n - 1) -> {0, 1}]
    /\ GeneratorFor
    /\ InitRest

(***************************************************************************)
(* main, per rank.                                                         *)
(***************************************************************************)
\* initialize_road_local, count_cars_local, entry into MPI_Allreduce.
Initialize(r) ==
    /\ pc[r] = "init"
    /\ LET bits == [i \in 1..local_n[r] |->
                       DensityTest(rand_vals[Displs(n, size, r) + i - 1], density)]
           road == InitializeRoadLocal(RoadCurrent(r), local_n[r], bits)
       IN  /\ bufs' = [bufs EXCEPT ![r][cur[r]] = road]
           /\ local_cars' = [local_cars EXCEPT ![r] = CountCarsLocal(road, local_n[r])]
    /\ allreduce_calls' = [allreduce_calls EXCEPT ![r] = @ + 1]
    /\ idx_hist' = [idx_hist EXCEPT ![r] = @ \cup OwnedIndices(local_n[r])]
    /\ pc' = [pc EXCEPT ![r] = "allreduce"]
    /\ UNCHANGED <<cfgVars, t, cur, chan, total_cars, local_moved, stamp, moved_hist,
                   sent_hist, outVars,
                   nxt, upd_hist, peel>>

RECURSIVE SumTo(_, _)
SumTo(f, k) == IF k < 0 THEN 0 ELSE f[k] + SumTo(f, k - 1)

\* A rank that has entered MPI_Allreduce with its local_cars.
ContributedOrGone(q) == pc[q] \notin {"alloc", "init"}

ContributedAlways(q) == pc[q] = pc[q]

Contributed(q) == pc[q] \notin {"alloc", "init", "aborted"}

\* A rank that has entered the first / the second MPI_Barrier.
InBarrier1(q) == pc[q] \notin {"alloc", "init", "allreduce", "aborted"}

InBarrier2Always(q) == pc[q] = pc[q]

InBarrier2(q) == pc[q] \in {"barrier2", "done"}

\* MPI_Allreduce completes once every rank has contributed; rank 0 prints the
\* report; entry into the first MPI_Barrier.
Allreduce(r) ==
    /\ pc[r] = "allreduce"
    /\ \A q \in Ranks : Contributed(q)
    /\ total_cars' = [total_cars EXCEPT ![r] = SumTo(local_cars, size - 1)]
    /\ report' = IF r = 0
                 THEN Append(report, [rank |-> r, total |-> SumTo(local_cars, size - 1)])
                 ELSE report
    /\ pc' = [pc EXCEPT ![r] = "barrier1"]
    /\ UNCHANGED <<cfgVars, t, bufs, cur, chan, local_cars, local_moved, stamp,
                   moved_hist, sent_hist, allreduce_calls, start_time_read, end_time_read,
                   csv, exit_status, abort_called, full_road,
                   nxt, upd_hist, idx_hist, peel>>

\* The first MPI_Barrier completes once every rank has entered it; rank 0
\* reads start_time; loop entry.
Barrier1(r) ==
    /\ pc[r] = "barrier1"
    /\ \A q \in Ranks : InBarrier1(q)
    /\ start_time_read' = IF r = 0 THEN start_time_read \cup {r} ELSE start_time_read
    /\ pc' = [pc EXCEPT ![r] = LoopOrExit(0)]
    /\ UNCHANGED <<cfgVars, t, bufs, cur, chan, local_cars, total_cars, local_moved,
                   stamp, moved_hist, sent_hist, allreduce_calls, report, end_time_read,
                   csv, exit_status, abort_called, full_road,
                   nxt, upd_hist, idx_hist, peel>>

\* exchange_borders, first MPI_Sendrecv, send half: road[1] to left_neighbor, tag 0.
Send0(r) ==
    /\ pc[r] = "send0"
    /\ \E v \in SendValues(r, SendIndex0(local_n[r]), RecvIndex0(local_n[r]),
                            right_neighbor[r], 0) :
          /\ chan' = [chan EXCEPT ![r][left_neighbor[r]] =
                      Append(@, [tag |-> 0, val |-> v, iter |-> t[r]])]
          /\ sent_hist' = [sent_hist EXCEPT ![r][0] = Append(@, v)]
    /\ idx_hist' = [idx_hist EXCEPT ![r] = @ \cup {SendIndex0(local_n[r])}]
    /\ pc' = [pc EXCEPT ![r] = "recv0"]
    /\ UNCHANGED <<cfgVars, t, bufs, cur, local_cars, total_cars, local_moved,
                   stamp, moved_hist, allreduce_calls, outVars,
                   nxt, upd_hist, peel>>

\* exchange_borders, first MPI_Sendrecv, receive half: road[local_n+1] from right_neighbor, tag 0.
Recv0(r) ==
    /\ pc[r] = "recv0"
    /\ LET q == chan[right_neighbor[r]][r]
           p == MatchPos(q, 0)
           b == ExchangeBuffer(r)
       IN  /\ p # 0
           /\ bufs' = [bufs EXCEPT ![r][b][RecvIndex0(local_n[r])] = q[p].val]
           /\ stamp' = [stamp EXCEPT ![r][b].right = [iter |-> q[p].iter, tag |-> q[p].tag]]
           /\ chan' = [chan EXCEPT ![right_neighbor[r]][r] = RemoveAt(q, p)]
    /\ idx_hist' = [idx_hist EXCEPT ![r] = @ \cup {RecvIndex0(local_n[r])}]
    /\ pc' = [pc EXCEPT ![r] = "send1"]
    /\ UNCHANGED <<cfgVars, t, cur, local_cars, total_cars, local_moved, moved_hist,
                   sent_hist, allreduce_calls, outVars,
                   nxt, upd_hist, peel>>

\* exchange_borders, second MPI_Sendrecv, send half: road[local_n] to right_neighbor, tag 1.
Send1(r) ==
    /\ pc[r] = "send1"
    /\ \E v \in SendValues(r, SendIndex1(local_n[r]), RecvIndex1(local_n[r]),
                            left_neighbor[r], 1) :
          /\ chan' = [chan EXCEPT ![r][right_neighbor[r]] =
                      Append(@, [tag |-> 1, val |-> v, iter |-> t[r]])]
          /\ sent_hist' = [sent_hist EXCEPT ![r][1] = Append(@, v)]
    /\ idx_hist' = [idx_hist EXCEPT ![r] = @ \cup {SendIndex1(local_n[r])}]
    /\ pc' = [pc EXCEPT ![r] = "recv1"]
    /\ UNCHANGED <<cfgVars, t, bufs, cur, local_cars, total_cars, local_moved,
                   stamp, moved_hist, allreduce_calls, outVars,
                   nxt, upd_hist, peel>>

\* exchange_borders, second MPI_Sendrecv, receive half: road[0] from left_neighbor, tag 1.
Recv1(r) ==
    /\ pc[r] = "recv1"
    /\ LET q == chan[left_neighbor[r]][r]
           p == MatchPos(q, 1)
           b == ExchangeBuffer(r)
       IN  /\ p # 0
           /\ bufs' = [bufs EXCEPT ![r][b][RecvIndex1(local_n[r])] = q[p].val]
           /\ stamp' = [stamp EXCEPT ![r][b].left = [iter |-> q[p].iter, tag |-> q[p].tag]]
           /\ chan' = [chan EXCEPT ![left_neighbor[r]][r] = RemoveAt(q, p)]
    /\ idx_hist' = [idx_hist EXCEPT ![r] = @ \cup {RecvIndex1(local_n[r])}]
    /\ pc' = [pc EXCEPT ![r] = "update"]
    /\ UNCHANGED <<cfgVars, t, cur, local_cars, total_cars, local_moved, moved_hist,
                   sent_hist, allreduce_calls, outVars,
                   nxt, upd_hist, peel>>

\* update_step, the pointer swap, t++ and the loop test.
Update(r) ==
    /\ pc[r] = "update"
    /\ LET res == UpdateStep(RoadCurrent(r), RoadNext(r), local_n[r])
       IN  /\ bufs' = [bufs EXCEPT ![r][nxt[r]] = res.road]
           /\ local_moved' = [local_moved EXCEPT ![r] = res.moved]
           /\ moved_hist' = [moved_hist EXCEPT ![r] = Append(@, res.moved)]
    /\ upd_hist' = [upd_hist EXCEPT ![r] =
                        Append(@, [old_road |-> cur[r], new_road |-> nxt[r]])]
    /\ idx_hist' = [idx_hist EXCEPT ![r] = @ \cup UpdateIndices(local_n[r])]
    /\ LET p == SwapPointers([road_current |-> cur[r], road_next |-> nxt[r]])
       IN  /\ cur' = [cur EXCEPT ![r] = p.road_current]
           /\ nxt' = [nxt EXCEPT ![r] = p.road_next]
    /\ t' = [t EXCEPT ![r] = @ + 1]
    /\ pc' = [pc EXCEPT ![r] = LoopOrExit(t[r] + 1)]
    /\ UNCHANGED <<cfgVars, chan, local_cars, total_cars, stamp, sent_hist,
                   allreduce_calls, outVars,
                   peel>>

\* The second MPI_Barrier completes once every rank has entered it; rank 0
\* reads end_time and appends the result line; return 0.
Barrier2(r) ==
    /\ pc[r] = "barrier2"
    /\ \A q \in Ranks : InBarrier2(q)
    /\ end_time_read' = IF r = 0 THEN end_time_read \cup {r} ELSE end_time_read
    /\ csv' = IF r = 0
              THEN Append(csv, [rank |-> r, n |-> n, iterations |-> iterations, size |-> size])
              ELSE csv
    /\ exit_status' = [exit_status EXCEPT ![r] = 0]
    /\ pc' = [pc EXCEPT ![r] = "done"]
    /\ UNCHANGED <<cfgVars, t, bufs, cur, chan, local_cars, total_cars, local_moved,
                   stamp, moved_hist, sent_hist, allreduce_calls, report, start_time_read,
                   abort_called, full_road,
                   nxt, upd_hist, idx_hist, peel>>

Step(r) ==
    \/ Initialize(r)
    \/ Allreduce(r)
    \/ Barrier1(r)
    \/ Send0(r)
    \/ Recv0(r)
    \/ Send1(r)
    \/ Recv1(r)
    \/ Update(r)
    \/ Barrier2(r)

Next == \E r \in Ranks : Step(r)

Spec == Init /\ [][Next]_vars

(***************************************************************************)
(* main with the two calloc calls and their check: a calloc may fail, the  *)
(* rank then calls MPI_Abort, which ends every rank of the group, each at  *)
(* some later moment of its own.                                           *)
(***************************************************************************)
AllocInit ==
    /\ n \in 1..MaxN
    /\ size \in 1..MaxSize
    /\ iterations \in 0..MaxIter
    /\ road0 \in [0..(n - 1) -> {0, 1}]
    /\ local_n = [r \in Ranks |-> LocalN(n, size, r)]
    /\ left_neighbor = [r \in Ranks |-> LeftNeighbor(r, size)]
    /\ right_neighbor = [r \in Ranks |-> RightNeighbor(r, size)]
    /\ pc = [r \in Ranks |-> "alloc"]
    /\ t = [r \in Ranks |-> 0]
    /\ bufs = [r \in Ranks |-> [b \in {0, 1} |-> <<>>]]
    /\ cur = [r \in Ranks |-> 0]
    /\ chan = [s \in Ranks |-> [d \in Ranks |-> <<>>]]
    /\ local_cars = [r \in Ranks |-> 0]
    /\ total_cars = [r \in Ranks |-> 0]
    /\ local_moved = [r \in Ranks |-> 0]
    /\ stamp = [r \in Ranks |-> [b \in {0, 1} |->
                   [left |-> [iter |-> -1, tag |-> -1], right |-> [iter |-> -1, tag |-> -1]]]]
    /\ moved_hist = [r \in Ranks |-> <<>>]
    /\ sent_hist = [r \in Ranks |-> [g \in {0, 1} |-> <<>>]]
    /\ allreduce_calls = [r \in Ranks |-> 0]
    /\ report = <<>>
    /\ start_time_read = {}
    /\ end_time_read = {}
    /\ csv = <<>>
    /\ exit_status = [r \in Ranks |-> -1]
    /\ abort_called = FALSE
    /\ full_road = <<>>
    /\ nxt = [r \in Ranks |-> 1]
    /\ upd_hist = [r \in Ranks |-> <<>>]
    /\ idx_hist = [r \in Ranks |-> {}]
    /\ peel = [pc |-> "idle", i |-> 0, new_road |-> <<>>, cars_moved |-> 0, reads |-> {}]
    /\ GeneratorFor

\* Both calloc calls succeed.
AllocOk(r) ==
    /\ pc[r] = "alloc"
    /\ bufs' = [bufs EXCEPT ![r] = [b \in {0, 1} |-> Calloc(local_n[r])]]
    /\ pc' = [pc EXCEPT ![r] = "init"]
    /\ UNCHANGED <<cfgVars, t, cur, chan, local_cars, total_cars, local_moved, stamp,
                   moved_hist, sent_hist, allreduce_calls, outVars,
                   nxt, upd_hist, idx_hist, peel>>

\* One of the calloc calls returns NULL: MPI_Abort(MPI_COMM_WORLD, 1).
AllocFail(r) ==
    /\ pc[r] = "alloc"
    /\ abort_called' = TRUE
    /\ exit_status' = [exit_status EXCEPT ![r] = 1]
    /\ pc' = [pc EXCEPT ![r] = "aborted"]
    /\ UNCHANGED <<cfgVars, t, bufs, cur, chan, local_cars, total_cars, local_moved, stamp,
                   moved_hist, sent_hist, allreduce_calls, report, start_time_read,
                   end_time_read, csv, full_road,
                   nxt, upd_hist, idx_hist, peel>>

\* The abort reaches a rank that is still running.
Killed(r) ==
    /\ abort_called
    /\ pc[r] \notin {"done", "aborted"}
    /\ exit_status' = [exit_status EXCEPT ![r] = 1]
    /\ pc' = [pc EXCEPT ![r] = "aborted"]
    /\ UNCHANGED <<cfgVars, t, bufs, cur, chan, local_cars, total_cars, local_moved, stamp,
                   moved_hist, sent_hist, allreduce_calls, report, start_time_read,
                   end_time_read, csv, abort_called, full_road,
                   nxt, upd_hist, idx_hist, peel>>

AllocNext == \E r \in Ranks : Step(r) \/ AllocOk(r) \/ AllocFail(r) \/ Killed(r)

AllocSpec == AllocInit /\ [][AllocNext]_vars

(***************************************************************************)
(* main with gather_and_print called by every rank on road_current after   *)
(* the loop (the call main makes when printing is enabled).                *)
(***************************************************************************)
GatherAndPrintAll ==
    /\ full_road = <<>>
    /\ \A r \in Ranks : pc[r] = "barrier2"
    /\ full_road' = Gatherv([cells |-> [g \in 0..(n - 1) |-> -1],
                             writes |-> [g \in 0..(n - 1) |-> 0]],
                            [r \in Ranks |-> RoadCurrent(r)], local_n,
                            GatherDispls(n, size), size, 0)
    /\ UNCHANGED <<cfgVars, pc, t, bufs, cur, chan, local_cars, total_cars, local_moved,
                   stamp, moved_hist, sent_hist, allreduce_calls, report, start_time_read,
                   end_time_read, csv, exit_status, abort_called,
                   nxt, upd_hist, idx_hist, peel>>

GatherNext == Next \/ GatherAndPrintAll

GatherSpec == Init /\ [][GatherNext]_vars

(***************************************************************************)
(* update_step of src/CA/cellular_automaton_v2.c, the loop-peeled kernel,  *)
(* called once on the lattice road0 of n cells: the left boundary block,   *)
(* the interior loop, the right boundary block.  reads collects the        *)
(* indices of old_road the call has read.  A read outside the n cells of   *)
(* old_road can give any value.                                            *)
(***************************************************************************)
mpiVars == <<cfgVars, pc, t, bufs, cur, chan, local_cars, total_cars, local_moved, stamp,
             moved_hist, sent_hist, allreduce_calls, outVars, nxt, upd_hist, idx_hist>>

OldRoadRead(idx) == IF idx \in 0..(n - 1) THEN {road0[idx]} ELSE {0, 1}

\* for (int i = 1; i < n - 1; i++): where the call goes when the loop variable is k.
PeelLoopOrExit(k) == IF k < n - 1 THEN "loop" ELSE "right"

\* A boundary block: cell i with the given neighbours; && reads its right
\* operand only when the left one is non-zero.
PeelBoundary(i, left, right, next_pc) ==
    \E vl \in OldRoadRead(left), vi \in OldRoadRead(i), vr \in OldRoadRead(right) :
        LET car_arriving == vl # 0 /\ ~(vi # 0)
            car_staying == vi # 0 /\ vr # 0
            moved == IF vi # 0 /\ ~(vr # 0) THEN 1 ELSE 0
            read == {left, i} \cup (IF vi # 0 THEN {right} ELSE {})
        IN  peel' = [pc |-> next_pc,
                     i |-> peel.i,
                     new_road |-> [peel.new_road EXCEPT
                                      ![i] = IF car_arriving \/ car_staying THEN 1 ELSE 0],
                     cars_moved |-> peel.cars_moved + moved,
                     reads |-> peel.reads \cup read]

\* main calls update_step(road_current, road_next, n); road_next is malloc'ed.
PeelCall ==
    /\ peel.pc = "idle"
    /\ peel' = [pc |-> "left", i |-> 0, new_road |-> [g \in 0..(n - 1) |-> -1],
                cars_moved |-> 0, reads |-> {}]
    /\ UNCHANGED mpiVars

PeelLeft ==
    /\ peel.pc = "left"
    /\ PeelBoundary(0, n - 1, 1, PeelLoopOrExit(1))
    /\ UNCHANGED mpiVars

PeelInterior ==
    /\ peel.pc = "loop"
    /\ LET i == peel.i + 1
           left_val == road0[i - 1]
           curr_val == road0[i]
           right_val == road0[i + 1]
           car_arriving == left_val # 0 /\ ~(curr_val # 0)
           car_staying == curr_val # 0 /\ right_val # 0
           moved == IF curr_val # 0 /\ ~(right_val # 0) THEN 1 ELSE 0
       IN  peel' = [pc |-> PeelLoopOrExit(i + 1),
                    i |-> i,
                    new_road |-> [peel.new_road EXCEPT
                                     ![i] = IF car_arriving \/ car_staying THEN 1 ELSE 0],
                    cars_moved |-> peel.cars_moved + moved,
                    reads |-> peel.reads \cup {i - 1, i, i + 1}]
    /\ UNCHANGED mpiVars

PeelRight ==
    /\ peel.pc = "right"
    /\ PeelBoundary(n - 1, n - 2, 0, "done")
    /\ UNCHANGED mpiVars

PeelNext == PeelCall \/ PeelLeft \/ PeelInterior \/ PeelRight

PeelInit ==
    /\ n \in 1..MaxN
    /\ size = 1
    /\ iterations = 0
    /\ road0 \in [0..(n - 1) -> {0, 1}]
    /\ GeneratorFor
    /\ InitRest

PeelSpec == PeelInit /\ [][PeelNext]_vars

(***************************************************************************)
(* Further specifications.                                                 *)
(***************************************************************************)
\* Every rank keeps running while it can take a step: an MPI process is never
\* suspended forever while its next call can complete.  No guard of main reads
\* a cell, so the initial lattices are drawn from two patterns per length:
\* empty and alternating.
FairInit ==
    /\ n \in 1..MaxN
    /\ size \in 1..MaxSize
    /\ iterations \in 0..MaxIter
    /\ road0 \in {[g \in 0..(n - 1) |-> 0], [g \in 0..(n - 1) |-> g % 2]}
    /\ GeneratorFor
    /\ InitRest

FairSpec ==
    /\ FairInit
    /\ [][Next]_vars
    /\ \A r \in 0..(MaxSize - 1) : WF_vars(r \in Ranks /\ Step(r))

\* A ring holding exactly one car, run for exactly n iterations on at most n workers.
OrbitInit ==
    /\ n \in 2..OrbitMaxN
    /\ size \in 1..Min(n, MaxSize)
    /\ iterations = n
    /\ \E p \in 0..(n - 1) : road0 = [g \in 0..(n - 1) |-> IF g = p THEN 1 ELSE 0]
    /\ GeneratorFor
    /\ InitRest

OrbitSpec == OrbitInit /\ [][Next]_vars

\* One iteration on a lattice produced by initialize_road_local from every
\* value the generator can return for each cell and every density from 0.0 to 1.0.
DensityInit ==
    /\ n \in 1..DensityMaxN
    /\ size \in 1..Min(MaxSize, 2)
    /\ iterations = 1
    /\ density \in 0..DensityDen
    /\ rand_vals \in [0..(n - 1) -> 0..MaxRand]
    /\ road0 = [g \in 0..(n - 1) |-> DensityTest(rand_vals[g], density)]
    /\ InitRest

DensitySpec == DensityInit /\ [][Next]_vars

\* Road lengths from 0 on; no index depends on a cell, so the lattices are
\* drawn from the empty and the alternating pattern.
IndexInit ==
    /\ n \in 0..MaxN
    /\ size \in 1..MaxSize
    /\ iterations \in 0..MaxIter
    /\ road0 \in {[g \in 0..(n - 1) |-> 0], [g \in 0..(n - 1) |-> g % 2]}
    /\ GeneratorFor
    /\ InitRest

IndexSpec == IndexInit /\ [][Next]_vars

(***************************************************************************)
(* Vocabulary of the properties.                                           *)
(***************************************************************************)
Initialized(r) == pc[r] # "init"
InLoopOrAfter(r) == pc[r] \notin {"init", "allreduce", "barrier1"}
AllDone == \A r \in Ranks : pc[r] = "done"
MinT == CHOOSE k \in {t[r] : r \in Ranks} : \A q \in Ranks : k <= t[q]

\* The buffer of rank q that holds its owned cells after exactly k updates
\* (t[q] = k, or t[q] = k + 1 and the previous state is in road_next).
StateAt(q, k) == IF t[q] = k THEN RoadCurrent(q) ELSE RoadNext(q)
Within(q, k) == t[q] = k \/ t[q] = k + 1

Owner(g) == CHOOSE q \in Ranks :
               Displs(n, size, q) <= g /\ g < Displs(n, size, q) + local_n[q]
RingCell(g, k) == StateAt(Owner(g), k)[g - Displs(n, size, Owner(g)) + 1]

\* One iteration of the loop of main when size = 1: both ghost slots are
\* filled from the rank's own boundary cells, then update_step runs.
OneIterationSize1(lat, nn) ==
    LET old_road == [i \in 0..(nn + 1) |->
                        IF i = 0 THEN lat[nn - 1] ELSE IF i = nn + 1 THEN lat[0] ELSE lat[i - 1]]
        res == UpdateStep(old_road, Calloc(nn), nn)
    IN  [g \in 0..(nn - 1) |-> res.road[g + 1]]

RECURSIVE RunSize1(_, _, _)
RunSize1(lat, nn, k) == IF k = 0 THEN lat ELSE OneIterationSize1(RunSize1(lat, nn, k - 1), nn)

RECURSIVE SumOver(_, _, _)
SumOver(F(_), lo, hi) == IF lo > hi THEN 0 ELSE F(lo) + SumOver(F, lo + 1, hi)

(***************************************************************************)
(* C1.  Partition-size invariance: for every n, size (also size > n),      *)
(* initial lattice and k, the owned cells of the workers after k           *)
(* iterations, concatenated in rank order, equal the lattice a single      *)
(* worker obtains from the same initial lattice after k iterations.        *)
(***************************************************************************)
C1_PartitionInvariance ==
    \A r \in Ranks : Initialized(r) =>
        \A i \in 1..local_n[r] :
            RoadCurrent(r)[i] = RunSize1(road0, n, t[r])[Displs(n, size, r) + i - 1]

\* The same, for partitions in which every worker owns a cell.
PartitionInvarianceOwned == size <= n => C1_PartitionInvariance

(***************************************************************************)
(* C2.  Occupancy conservation: the owned cells of all workers after       *)
(* their k-th update hold as many cars as the initial lattice, the value   *)
(* MPI_Allreduce produced.                                                 *)
(***************************************************************************)
CarsAt(k) ==
    LET F(q) == CountCarsLocal(StateAt(q, k), local_n[q]) IN SumOver(F, 0, size - 1)
InitialCars == LET F(g) == road0[g] IN SumOver(F, 0, n - 1)

C2_OccupancyConserved ==
    ((\A r \in Ranks : Initialized(r)) /\ (\A r \in Ranks : Within(r, MinT)))
        => /\ CarsAt(MinT) = InitialCars
           /\ \A r \in Ranks : pc[r] \notin {"init", "allreduce"} => CarsAt(MinT) = total_cars[r]

OccupancyConservedOwned == size <= n => C2_OccupancyConserved

(***************************************************************************)
(* C3.  Halo invariant: between exchange_borders and update_step of        *)
(* iteration k, ghost slot 0 of a worker equals cell local_n of its left   *)
(* neighbour's buffer of iteration k and ghost slot local_n + 1 equals     *)
(* cell 1 of its right neighbour's buffer of iteration k.                  *)
(***************************************************************************)
C3_HaloInvariant ==
    \A r \in Ranks : pc[r] = "update" =>
        LET lft == left_neighbor[r]
            rgt == right_neighbor[r]
        IN  /\ Within(lft, t[r]) /\ Within(rgt, t[r])
            /\ RoadCurrent(r)[0] = StateAt(lft, t[r])[local_n[lft]]
            /\ RoadCurrent(r)[local_n[r] + 1] = StateAt(rgt, t[r])[1]

HaloInvariantOwned == size <= n => C3_HaloInvariant

(***************************************************************************)
(* C4.  Deadlock freedom and termination: under fair scheduling no state   *)
(* has every unfinished worker blocked, and every worker eventually        *)
(* completes its iterations, passes the final barrier and terminates.      *)
(***************************************************************************)
C4_DeadlockFreeAndTerminates ==
    /\ [](AllDone \/ ENABLED Next)
    /\ <>(AllDone /\ \A r \in Ranks : t[r] = iterations)

C4_Witness ==
    /\ AllDone /\ size = 2 /\ iterations = MaxIter
    /\ \A r \in Ranks : t[r] = iterations /\ Len(sent_hist[r][1]) = iterations

(***************************************************************************)
(* C5.  Cross-iteration ordering: the ghost values a worker holds when it  *)
(* runs update_step of iteration k were received from messages its         *)
(* neighbours sent in their iteration k, the right ghost from the tag 0    *)
(* message and the left ghost from the tag 1 message, and are the values   *)
(* the neighbours sent then, even when a neighbour has sent again since.   *)
(***************************************************************************)
C5_CrossIterationOrdering ==
    \A r \in Ranks : pc[r] = "update" =>
        LET lft == left_neighbor[r]
            rgt == right_neighbor[r]
        IN  /\ stamp[r][cur[r]].right = [iter |-> t[r], tag |-> 0]
            /\ stamp[r][cur[r]].left = [iter |-> t[r], tag |-> 1]
            /\ Len(sent_hist[rgt][0]) > t[r]
            /\ Len(sent_hist[lft][1]) > t[r]
            /\ RoadCurrent(r)[local_n[r] + 1] = sent_hist[rgt][0][t[r] + 1]
            /\ RoadCurrent(r)[0] = sent_hist[lft][1][t[r] + 1]

\* A worker about to update while its right neighbour has already sent the
\* tag 0 message of the next iteration.
C5_Witness ==
    \E r \in Ranks :
        /\ pc[r] = "update" /\ size >= 2
        /\ Len(sent_hist[right_neighbor[r]][0]) = t[r] + 2
        /\ chan[right_neighbor[r]][r] # <<>>

(***************************************************************************)
(* C6.  Partition sizes: the local_n of all workers sum to n, each is      *)
(* n / size or n / size + 1, and exactly the first n % size ranks own the  *)
(* extra cell.                                                             *)
(***************************************************************************)
C6_PartitionSizes ==
    /\ SumTo(local_n, size - 1) = n
    /\ \A r \in Ranks : local_n[r] \in {n \div size, (n \div size) + 1}
    /\ \A r \in Ranks : (local_n[r] = (n \div size) + 1) <=> (r < n % size)
    /\ \A r \in Ranks : \A b \in {0, 1} : DOMAIN bufs[r][b] = 0..(local_n[r] + 1)

C6_Witness ==
    /\ n = 4 /\ size = 3
    /\ local_n[0] = 2 /\ local_n[1] = 1 /\ local_n[2] = 1
    /\ AllDone

(***************************************************************************)
(* C7.  Periodic boundary wrap: after each completed exchange the left     *)
(* ghost of a worker equals the ring cell just before its owned range and  *)
(* the right ghost the ring cell just after it, indices modulo n; for the  *)
(* worker owning ring cell 0 the left ghost is ring cell n - 1, for the    *)
(* worker owning ring cell n - 1 the right ghost is ring cell 0.           *)
(***************************************************************************)
C7_PeriodicWrap ==
    \A r \in Ranks : pc[r] = "update" =>
        LET before == (Displs(n, size, r) - 1 + n) % n
            after == (Displs(n, size, r) + local_n[r]) % n
        IN  /\ Within(Owner(before), t[r]) => RoadCurrent(r)[0] = RingCell(before, t[r])
            /\ Within(Owner(after), t[r]) =>
                   RoadCurrent(r)[local_n[r] + 1] = RingCell(after, t[r])

PeriodicWrapOwned == size <= n => C7_PeriodicWrap

(***************************************************************************)
(* C8.  Single-worker degradation: with size = 1 neither receive blocks,   *)
(* each exchange sets ghost slot 0 to the worker's cell n and ghost slot   *)
(* n + 1 to its cell 1, and after every iteration the owned cells and the  *)
(* moved count are those of the sequential periodic update_step applied    *)
(* to the previous lattice.                                                *)
(***************************************************************************)
C8_SingleWorker ==
    size = 1 =>
        /\ pc[0] = "recv0" => MatchPos(chan[0][0], 0) # 0
        /\ pc[0] = "recv1" => MatchPos(chan[0][0], 1) # 0
        /\ pc[0] = "update" =>
              /\ RoadCurrent(0)[0] = RoadCurrent(0)[n]
              /\ RoadCurrent(0)[n + 1] = RoadCurrent(0)[1]
        /\ t[0] >= 1 =>
              LET prev == [g \in 0..(n - 1) |-> RoadNext(0)[g + 1]]
                  res == SeqUpdateStep(prev, n)
              IN  /\ \A g \in 0..(n - 1) : RoadCurrent(0)[g + 1] = res.road[g]
                  /\ local_moved[0] = res.moved

C8_Witness ==
    /\ size = 1 /\ n = 3 /\ t[0] = 2 /\ pc[0] = "done"
    /\ local_moved[0] = 1
    /\ RoadCurrent(0)[1] # road0[0]

(***************************************************************************)
(* C9.  Single-car orbit: with exactly one car at ring position p and      *)
(* 1 <= size <= n, after k iterations the only occupied cell is            *)
(* (p + k) mod n, after n iterations the lattice is the initial one, and   *)
(* the moved counts of every iteration sum to 1 over the workers.          *)
(***************************************************************************)
CarStart == CHOOSE p \in 0..(n - 1) : road0[p] = 1
MovedIn(k) == LET F(q) == moved_hist[q][k] IN SumOver(F, 0, size - 1)

C9_SingleCarOrbit ==
    LET p == CarStart
    IN  /\ \A r \in Ranks : Initialized(r) =>
              LET first == Displs(n, size, r)
                  car == (p + t[r]) % n
              IN  \A i \in 1..local_n[r] :
                      /\ RoadCurrent(r)[i] = (IF first + i - 1 = car THEN 1 ELSE 0)
                      /\ t[r] = n => RoadCurrent(r)[i] = road0[first + i - 1]
        /\ \A k \in 1..n : (\A r \in Ranks : Len(moved_hist[r]) >= k) => MovedIn(k) = 1

C9_Witness ==
    /\ n = OrbitMaxN /\ size = MaxSize /\ AllDone
    /\ \A r \in Ranks : t[r] = n /\ Len(moved_hist[r]) = n
    /\ CarStart = n - 1
    /\ RoadCurrent(size - 1)[local_n[size - 1]] = 1

(***************************************************************************)
(* C10.  Jammed fixed point: when every cell of the initial lattice is     *)
(* occupied, every owned cell of every worker stays occupied after every   *)
(* update and every update_step returns 0.                                 *)
(***************************************************************************)
C10_JammedFixedPoint ==
    (\A g \in 0..(n - 1) : road0[g] = 1) =>
        \A r \in Ranks : Initialized(r) =>
            /\ \A i \in 1..local_n[r] : RoadCurrent(r)[i] = 1
            /\ \A k \in 1..Len(moved_hist[r]) : moved_hist[r][k] = 0

JammedFixedPointOwned == size <= n => C10_JammedFixedPoint

(***************************************************************************)
(* C11.  Reduction correctness: once a worker is past MPI_Allreduce its    *)
(* total_cars is the sum of all workers' local counts, which is the number *)
(* of occupied cells of the global lattice, whatever the order of arrival; *)
(* a local count is the sum of the owned cells only.                       *)
(***************************************************************************)
OwnedCars(q) == LET F(i) == RoadCurrent(q)[i] IN SumOver(F, 1, local_n[q])

C11_ReductionCorrect ==
    /\ \A r \in Ranks : pc[r] \notin {"init", "allreduce"} =>
          /\ total_cars[r] = SumTo(local_cars, size - 1)
          /\ total_cars[r] = InitialCars
    /\ \A q \in Ranks : (Initialized(q) /\ t[q] = 0) => local_cars[q] = OwnedCars(q)

\* Rank 2 holds the total while rank 0, which holds a filled ghost slot at the
\* end, is still inside the reduction.
C11_Witness ==
    /\ n = 4 /\ size = 3 /\ InitialCars = 3
    /\ pc[2] = "barrier1" /\ pc[0] = "allreduce" /\ total_cars[2] = 3

(***************************************************************************)
(* C12.  Invalid configuration is rejected: with a road length <= 0 or an  *)
(* iteration count <= 0 no worker enters MPI_Allreduce, a barrier or an    *)
(* exchange, no result line is written and every worker that has exited    *)
(* has a non-zero status.                                                  *)
(***************************************************************************)
C12_InvalidConfigRejected ==
    (n <= 0 \/ iterations <= 0) =>
        /\ \A r \in Ranks : allreduce_calls[r] = 0 /\ pc[r] \in {"init", "done"}
        /\ \A r \in Ranks : exit_status[r] # 0
        /\ csv = <<>> /\ report = <<>>

(***************************************************************************)
(* C13.  Allocation failure aborts the group: the worker whose calloc      *)
(* fails calls MPI_Abort before it initializes or communicates, and from   *)
(* then on no worker is past the initial MPI_Allreduce, has run a loop     *)
(* iteration, or has written a report or result line.                      *)
(***************************************************************************)
C13_AllocFailureAborts ==
    abort_called =>
        /\ \E r \in Ranks : pc[r] = "aborted" /\ allreduce_calls[r] = 0 /\ local_cars[r] = 0
        /\ \A r \in Ranks :
              /\ pc[r] \in {"alloc", "init", "allreduce", "aborted"}
              /\ t[r] = 0 /\ total_cars[r] = 0
              /\ sent_hist[r][0] = <<>> /\ sent_hist[r][1] = <<>>
              /\ exit_status[r] # 0
        /\ report = <<>> /\ csv = <<>> /\ start_time_read = {} /\ end_time_read = {}

\* One rank failed, one was ended after it had contributed, one is still
\* blocked in the reduction.
C13_Witness ==
    /\ abort_called /\ size = 3
    /\ \E r \in Ranks : pc[r] = "allreduce"
    /\ \E r \in Ranks : pc[r] = "aborted" /\ allreduce_calls[r] = 1
    /\ \E r \in Ranks : pc[r] = "aborted" /\ allreduce_calls[r] = 0

(***************************************************************************)
(* C14.  Gather content: the buffer assembled at rank 0 has n cells, cell  *)
(* g is the owned cell that holds ring index g, and every cell is written  *)
(* exactly once.                                                           *)
(***************************************************************************)
C14_GatherContent ==
    full_road # <<>> =>
        /\ DOMAIN full_road.cells = 0..(n - 1)
        /\ \A g \in 0..(n - 1) :
              /\ full_road.writes[g] = 1
              /\ full_road.cells[g] = RoadCurrent(Owner(g))[g - Displs(n, size, Owner(g)) + 1]

\* Uneven partition; the left ghost slot of rank 0 differs from ring cell 3.
C14_Witness ==
    /\ full_road # <<>> /\ n = 4 /\ size = 3 /\ iterations = 2
    /\ full_road.cells[0] = 0 /\ full_road.cells[1] = 1 /\ full_road.cells[3] = 0
    /\ RoadCurrent(0)[0] = 1

(***************************************************************************)
(* C15.  Ring topology: both neighbours of every rank lie in 0..size-1,    *)
(* going left then right (or right then left) returns to the rank, the     *)
(* right neighbour of rank size-1 is rank 0, and with size = 1 a rank is   *)
(* its own neighbour on both sides.                                        *)
(***************************************************************************)
C15_RingTopology ==
    \A r \in Ranks :
        /\ left_neighbor[r] \in Ranks /\ right_neighbor[r] \in Ranks
        /\ left_neighbor[r] = (IF r = 0 THEN size - 1 ELSE r - 1)
        /\ right_neighbor[r] = (IF r = size - 1 THEN 0 ELSE r + 1)
        /\ right_neighbor[left_neighbor[r]] = r
        /\ left_neighbor[right_neighbor[r]] = r
        /\ size = 1 => left_neighbor[r] = r /\ right_neighbor[r] = r

\* Rank 0 has sent its first cell around the ring to rank size-1.
C15_Witness ==
    /\ size = 3 /\ left_neighbor[0] = 2 /\ right_neighbor[2] = 0
    /\ Len(chan[0][2]) = 1 /\ chan[0][2][1].tag = 0

(***************************************************************************)
(* C16.  Update rule: update_step sets new[i] to (old[i-1] and not old[i]) *)
(* or (old[i] and old[i+1]) for every owned i, the boundary cells read     *)
(* from the ghost slots, and returns the number of owned i with            *)
(* old[i] = 1 and old[i+1] = 0.                                            *)
(***************************************************************************)
Rule(old, i) ==
    IF (old[i - 1] = 1 /\ old[i] = 0) \/ (old[i] = 1 /\ old[i + 1] = 1) THEN 1 ELSE 0

C16_UpdateRule ==
    \A r \in Ranks : t[r] >= 1 =>
        LET old == RoadNext(r)
            new == RoadCurrent(r)
        IN  /\ \A i \in 1..local_n[r] : new[i] = Rule(old, i)
            /\ local_moved[r] =
                  Cardinality({i \in 1..local_n[r] : old[i] = 1 /\ old[i + 1] = 0})

\* A car arrived from the left ghost slot and one left through the right one.
C16_Witness ==
    \E r \in Ranks :
        /\ t[r] = 1 /\ local_n[r] = 2 /\ local_moved[r] = 1
        /\ RoadNext(r)[0] = 1 /\ RoadNext(r)[1] = 0 /\ RoadCurrent(r)[1] = 1
        /\ RoadNext(r)[2] = 1 /\ RoadNext(r)[3] = 0 /\ RoadCurrent(r)[2] = 0

(***************************************************************************)
(* C17.  Gather counts match the partition: recvcounts[i] is the local_n   *)
(* of rank i, displs[i] is the sum of recvcounts[0..i-1], and the receive  *)
(* ranges are contiguous, disjoint and cover exactly 0..n-1.               *)
(***************************************************************************)
C17_GatherCountsMatchPartition ==
    LET recvcounts == GatherRecvCounts(n, size)
        displs == GatherDispls(n, size)
    IN  /\ \A i \in Ranks :
              /\ recvcounts[i] = local_n[i]
              /\ displs[i] = SumTo(recvcounts, i - 1)
              /\ displs[i] + recvcounts[i] <= n
        /\ \A g \in 0..(n - 1) :
              Cardinality({i \in Ranks : displs[i] <= g /\ g < displs[i] + recvcounts[i]}) = 1

C17_Witness ==
    /\ full_road # <<>> /\ n = 4 /\ size = 3
    /\ GatherDispls(n, size)[2] = 3 /\ GatherRecvCounts(n, size)[0] = 2

(***************************************************************************)
(* C18.  Reduction precedes the loop: nobody prints the report, enters the *)
(* first barrier or starts an exchange before every worker has initialized *)
(* its segment and entered MPI_Allreduce; each worker calls MPI_Allreduce  *)
(* exactly once, never inside the loop.                                    *)
(***************************************************************************)
SliceCars(q) == LET F(i) == road0[Displs(n, size, q) + i - 1] IN SumOver(F, 1, local_n[q])

C18_ReductionPrecedesLoop ==
    /\ (report # <<>> \/ \E r \in Ranks : pc[r] \notin {"init", "allreduce"}) =>
          \A q \in Ranks :
              Initialized(q) /\ allreduce_calls[q] = 1 /\ local_cars[q] = SliceCars(q)
    /\ \A r \in Ranks : allreduce_calls[r] = (IF Initialized(r) THEN 1 ELSE 0)
    /\ Len(report) <= 1

\* Every worker has run its whole loop and still has called the reduction once.
C18_Witness ==
    /\ size = 3 /\ iterations = MaxIter /\ Len(report) = 1 /\ report[1].total = 2
    /\ \A r \in Ranks : pc[r] = "barrier2" /\ t[r] = MaxIter /\ allreduce_calls[r] = 1

(***************************************************************************)
(* C19.  Timing barriers: rank 0 reads the start time only when every      *)
(* worker is in or past the first barrier, reads the end time and writes   *)
(* the result line only when every worker has run all its iterations and   *)
(* is in or past the second barrier; no other rank reads the timer or      *)
(* writes the result.                                                      *)
(***************************************************************************)
C19_TimingBarriers ==
    /\ start_time_read \subseteq {0} /\ end_time_read \subseteq {0}
    /\ Len(csv) <= 1 /\ \A k \in 1..Len(csv) : csv[k].rank = 0
    /\ start_time_read # {} =>
          \A q \in Ranks : pc[q] \notin {"init", "allreduce"} /\ allreduce_calls[q] = 1
    /\ (end_time_read # {} \/ csv # <<>>) =>
          /\ start_time_read = {0} /\ end_time_read = {0} /\ Len(csv) = 1
          /\ \A q \in Ranks : t[q] = iterations /\ pc[q] \in {"barrier2", "done"}

\* Rank 0 has written its line while the other ranks have not left the barrier.
C19_Witness ==
    /\ size = 3 /\ iterations = MaxIter /\ Len(csv) = 1 /\ csv[1].iterations = MaxIter
    /\ pc[0] = "done" /\ pc[1] = "barrier2" /\ pc[2] = "barrier2"

C21_DoubleBuffering ==
    \A r \in Ranks :
        /\ DOMAIN bufs[r] = {0, 1}
        /\ {cur[r], nxt[r]} = {0, 1}
        /\ Len(upd_hist[r]) = t[r]
        /\ \A k \in 1..Len(upd_hist[r]) :
              /\ upd_hist[r][k].old_road # upd_hist[r][k].new_road
              /\ k > 1 => /\ upd_hist[r][k].old_road = upd_hist[r][k - 1].new_road
                          /\ upd_hist[r][k].new_road = upd_hist[r][k - 1].old_road
        /\ t[r] >= 1 => cur[r] = upd_hist[r][t[r]].new_road

\* Two updates: the second read the buffer the first wrote.
C21_Witness ==
    \E r \in Ranks :
        /\ t[r] = 2 /\ cur[r] = 0 /\ nxt[r] = 1 /\ local_n[r] = 2
        /\ upd_hist[r] = <<[old_road |-> 0, new_road |-> 1], [old_road |-> 1, new_road |-> 0]>>
        /\ RoadCurrent(r)[1] # RoadNext(r)[1]

(***************************************************************************)
(* C22.  Only owned cells are sent: for every n and size, also size > n,   *)
(* the cell a worker sends to its left neighbour (index 1) and the cell it *)
(* sends to its right neighbour (index local_n) are owned cells, indices   *)
(* in 1..local_n, and the cell sent is never the slot the same             *)
(* MPI_Sendrecv receives into.                                             *)
(***************************************************************************)
C22_OnlyOwnedCellsSent ==
    \A r \in Ranks :
        /\ sent_hist[r][0] # <<>> =>
              /\ SendIndex0(local_n[r]) \in 1..local_n[r]
              /\ SendIndex0(local_n[r]) # RecvIndex0(local_n[r])
        /\ sent_hist[r][1] # <<>> =>
              /\ SendIndex1(local_n[r]) \in 1..local_n[r]
              /\ SendIndex1(local_n[r]) # RecvIndex1(local_n[r])

\* The same, for partitions in which every worker owns a cell.
OnlyOwnedCellsSentOwned == size <= n => C22_OnlyOwnedCellsSent

(***************************************************************************)
(* C23.  Sub-phase order, as claimed: in every iteration a worker first    *)
(* sends to its right neighbour and receives its left ghost slot, and only *)
(* then sends to its left neighbour and receives its right ghost slot;     *)
(* two paired exchanges per iteration.                                     *)
(***************************************************************************)
\* Sends of a worker so far: tag 0 goes to left_neighbor, tag 1 to right_neighbor.
SentLeft(r) == Len(sent_hist[r][0])
SentRight(r) == Len(sent_hist[r][1])

ExchangesPerIteration ==
    /\ \A r \in Ranks :
          /\ pc[r] \in {"init", "allreduce", "barrier1"} => SentLeft(r) = 0 /\ SentRight(r) = 0
          /\ pc[r] \in {"send0", "barrier2", "done"} =>
                SentLeft(r) = t[r] /\ SentRight(r) = t[r]
          /\ pc[r] = "update" => SentLeft(r) = t[r] + 1 /\ SentRight(r) = t[r] + 1
    /\ \A s \in Ranks : \A d \in Ranks : \A i \in 1..Len(chan[s][d]) :
          /\ chan[s][d][i].tag = 0 => d = left_neighbor[s]
          /\ chan[s][d][i].tag = 1 => d = right_neighbor[s]

C23_SubPhaseOrder ==
    /\ ExchangesPerIteration
    /\ \A r \in Ranks :
          /\ SentLeft(r) <= SentRight(r) /\ SentRight(r) <= SentLeft(r) + 1
          /\ SentLeft(r) > t[r] => stamp[r][cur[r]].left.iter = t[r]

(***************************************************************************)
(* C23, amended: in every iteration a worker first sends the cell at index *)
(* 1 to its left neighbour and receives its right ghost slot (tag 0), and  *)
(* only after that sends the cell at index local_n to its right neighbour  *)
(* and receives its left ghost slot (tag 1); two paired exchanges per      *)
(* iteration.                                                              *)
(***************************************************************************)
C23_SubPhaseOrderLeftFirst ==
    /\ ExchangesPerIteration
    /\ \A r \in Ranks :
          /\ SentRight(r) <= SentLeft(r) /\ SentLeft(r) <= SentRight(r) + 1
          /\ SentRight(r) > t[r] => stamp[r][cur[r]].right = [iter |-> t[r], tag |-> 0]
          /\ pc[r] = "update" => stamp[r][cur[r]].left = [iter |-> t[r], tag |-> 1]
          /\ (local_n[r] >= 1 /\ SentLeft(r) > t[r]) =>
                sent_hist[r][0][t[r] + 1] = RoadCurrent(r)[SendIndex0(local_n[r])]
          /\ (local_n[r] >= 1 /\ SentRight(r) > t[r]) =>
                sent_hist[r][1][t[r] + 1] = RoadCurrent(r)[SendIndex1(local_n[r])]

\* Second iteration, between the two exchanges: the leftmost cell has gone to
\* the left, the right ghost slot is filled, nothing has gone to the right yet.
C23_Witness ==
    \E r \in Ranks :
        /\ size = 3 /\ pc[r] = "send1" /\ t[r] = 1 /\ local_n[r] = 2
        /\ SentLeft(r) = 2 /\ SentRight(r) = 1
        /\ RoadCurrent(r)[1] = 1 /\ RoadCurrent(r)[2] = 0
        /\ sent_hist[r][0][2] = 1

(***************************************************************************)
(* C24.  Loop-peeled kernel equivalence: for every n >= 1 and every        *)
(* lattice the loop-peeled update_step writes the same new lattice and     *)
(* returns the same moved count as the modulo-based update_step, and reads *)
(* only indices 0..n-1 of old_road.                                        *)
(***************************************************************************)
C24_PeeledEquivalent ==
    peel.pc = "done" =>
        LET res == SeqUpdateStep(road0, n)
        IN  /\ \A g \in 0..(n - 1) : peel.new_road[g] = res.road[g]
            /\ peel.cars_moved = res.moved
            /\ peel.reads \subseteq 0..(n - 1)

\* The same, for lattices of at least two cells.
PeeledEquivalentFrom2 == n >= 2 => C24_PeeledEquivalent

(***************************************************************************)
(* C25.  Density extremes at initialization: whatever values rand()        *)
(* returns, with density 1.0 initialize_road_local sets every owned cell   *)
(* to 1, with density 0.0 it sets every owned cell to 0, and in all cases  *)
(* every owned cell is 0 or 1.                                             *)
(***************************************************************************)
C25_DensityExtremes ==
    \A r \in Ranks : (Initialized(r) /\ t[r] = 0) =>
        \A i \in 1..local_n[r] :
            /\ RoadCurrent(r)[i] \in {0, 1}
            /\ density = DensityDen => RoadCurrent(r)[i] = 1
            /\ density = 0 => RoadCurrent(r)[i] = 0

\* The same, when rand() never returns its largest value.
DensityExtremesBelowMax ==
    (\A g \in 0..(n - 1) : rand_vals[g] < MaxRand) => C25_DensityExtremes

(***************************************************************************)
(* C26.  Bounded iteration skew: the completed iterations of a worker and  *)
(* of either ring neighbour differ by at most 1, and a worker has          *)
(* completed the exchange of iteration k only when both neighbours have    *)
(* started their exchange of iteration k.                                  *)
(***************************************************************************)
Neighbours(r) == {left_neighbor[r], right_neighbor[r]}
StartedExchange(q, k) ==
    t[q] > k \/ (t[q] = k /\ pc[q] \in {"recv0", "send1", "recv1", "update"})

C26_BoundedSkew ==
    \A r \in Ranks : \A q \in Neighbours(r) :
        /\ t[r] - t[q] <= 1 /\ t[q] - t[r] <= 1
        /\ pc[r] = "update" => StartedExchange(q, t[r])
        /\ t[r] >= 1 => StartedExchange(q, t[r] - 1)

\* Rank 0 is a whole iteration ahead of both neighbours, one of which has
\* only just started its exchange.
C26_Witness ==
    /\ size = 3 /\ t[0] = 2 /\ t[1] = 1 /\ t[2] = 1
    /\ pc[1] = "recv0" /\ pc[0] = "barrier2"

(***************************************************************************)
(* C27.  Bounded channels: with eager sends there is at most one sent and  *)
(* not yet received halo message for each sender, receiver and tag, for    *)
(* every size, so the message a receive matches by source and tag is       *)
(* unique.                                                                 *)
(***************************************************************************)
InFlight(s, d, tag) == {i \in 1..Len(chan[s][d]) : chan[s][d][i].tag = tag}

C27_BoundedChannels ==
    \A s \in Ranks : \A d \in Ranks : \A tag \in {0, 1} :
        /\ Cardinality(InFlight(s, d, tag)) <= 1
        /\ \A i \in 1..Len(chan[s][d]) : chan[s][d][i].tag \in {0, 1}

\* Two workers: both messages of rank 0 are in flight to rank 1, and rank 1,
\* a whole iteration behind in its receives, is about to match the tag 0 one.
C27_Witness ==
    /\ size = 2 /\ Len(chan[0][1]) = 2 /\ pc[1] = "recv0" /\ t[1] = 1
    /\ Cardinality(InFlight(0, 1, 0)) = 1 /\ Cardinality(InFlight(0, 1, 1)) = 1

(***************************************************************************)
(* C28.  Frame conditions, for a worker with local_n >= 1: a step of       *)
(* exchange_borders leaves the owned cells of the current buffer and the   *)
(* whole next buffer unchanged; update_step leaves the current buffer and  *)
(* the ghost slots of the next buffer unchanged; initialize_road_local     *)
(* leaves the ghost slots and the next buffer unchanged and sends no       *)
(* message.  No step changes a buffer of another worker.                   *)
(***************************************************************************)
C28_FrameConditions ==
    [][\A r \in Ranks : (local_n[r] >= 1 /\ pc'[r] # pc[r]) =>
          /\ pc[r] \in {"send0", "recv0", "send1", "recv1"} =>
                /\ \A i \in 1..local_n[r] : bufs'[r][cur[r]][i] = bufs[r][cur[r]][i]
                /\ bufs'[r][nxt[r]] = bufs[r][nxt[r]]
          /\ pc[r] = "update" =>
                /\ bufs'[r][cur[r]] = bufs[r][cur[r]]
                /\ bufs'[r][nxt[r]][0] = bufs[r][nxt[r]][0]
                /\ bufs'[r][nxt[r]][local_n[r] + 1] = bufs[r][nxt[r]][local_n[r] + 1]
          /\ pc[r] = "init" =>
                /\ bufs'[r][cur[r]][0] = bufs[r][cur[r]][0]
                /\ bufs'[r][cur[r]][local_n[r] + 1] = bufs[r][cur[r]][local_n[r] + 1]
                /\ bufs'[r][nxt[r]] = bufs[r][nxt[r]]
                /\ chan' = chan
          /\ \A q \in Ranks \ {r} : bufs'[q] = bufs[q]]_vars

\* Second exchange done: both ghost slots of the current buffer were
\* overwritten, its owned cells and the other buffer's ghost slots were not.
C28_Witness ==
    \E r \in Ranks :
        /\ local_n[r] = 2 /\ t[r] = 1 /\ pc[r] = "update"
        /\ RoadCurrent(r)[0] = 1 /\ RoadCurrent(r)[3] = 1
        /\ RoadCurrent(r)[1] = 0 /\ RoadCurrent(r)[2] = 0
        /\ RoadNext(r)[0] = 0 /\ RoadNext(r)[3] = 0 /\ RoadNext(r)[2] = 1

(***************************************************************************)
(* C29.  Index safety: for every n >= 0 and size >= 1, also for workers    *)
(* with local_n = 0, every buffer index initialize_road_local,             *)
(* count_cars_local, exchange_borders and update_step read or write lies   *)
(* in 0..local_n+1, the range of the local_n + 2 cells allocated.          *)
(***************************************************************************)
C29_IndexSafety ==
    \A r \in Ranks :
        /\ \A b \in {0, 1} : DOMAIN bufs[r][b] = 0..(local_n[r] + 1)
        /\ idx_hist[r] \subseteq 0..(local_n[r] + 1)

\* An empty road on two workers, run to the end: each has touched both cells
\* of its two-cell buffers and nothing else.
C29_Witness ==
    /\ n = 0 /\ size = 2 /\ iterations = MaxIter /\ AllDone
    /\ \A r \in Ranks : local_n[r] = 0 /\ idx_hist[r] = {0, 1} /\ t[r] = MaxIter

(***************************************************************************)
(* C30.  Moved count equals arrivals: for 1 <= size <= n and every         *)
(* iteration, the values update_step returned on the workers sum to the    *)
(* number of ring cells that went from empty to occupied in that           *)
(* iteration, which is also the number that went from occupied to empty.   *)
(***************************************************************************)
CellBefore(g) == RoadNext(Owner(g))[g - Displs(n, size, Owner(g)) + 1]
CellAfter(g) == RoadCurrent(Owner(g))[g - Displs(n, size, Owner(g)) + 1]
Arrivals == Cardinality({g \in 0..(n - 1) : CellBefore(g) = 0 /\ CellAfter(g) = 1})
Departures == Cardinality({g \in 0..(n - 1) : CellBefore(g) = 1 /\ CellAfter(g) = 0})

C30_MovedEqualsArrivals ==
    (size <= n /\ t[0] >= 1 /\ \A q \in Ranks : t[q] = t[0]) =>
        /\ MovedIn(t[0]) = Arrivals
        /\ MovedIn(t[0]) = Departures

\* Three workers after their second update: one of the two cars was blocked in
\* the first iteration, both moved in the second.
C30_Witness ==
    /\ n = 4 /\ size = 3 /\ \A q \in Ranks : t[q] = 2
    /\ InitialCars = 2 /\ MovedIn(1) = 1
    /\ MovedIn(2) = 2 /\ Arrivals = 2 /\ Departures = 2

====
